---- MODULE Spec2Model ----
(***************************************************************************)
(* Model of the path-planning AI of src/computer.js (class ComputerAI):    *)
(* the planning timer (suggestMove / reset / the three toggles) and the    *)
(* path scorer it drives.                                                  *)
(*                                                                         *)
(* Numbers.  JavaScript numbers are modelled as fixed-point integers with  *)
(* three decimals:                                                         *)
(*   lengths and coordinates   in 1/1000 world unit                        *)
(*   times (seconds in the JS) in 1/1000 s                                 *)
(*   direction components, skill, lookaheadPercent, heightFactor in 1/1000 *)
(*   scores                    in 1/1000 point                             *)
(*   velocities                in 1/1000 unit per second                   *)
(* A product of two fixed-point numbers is divided by Scale, rounding      *)
(* toward zero, so that mirrored inputs give mirrored results as they do   *)
(* in IEEE arithmetic.                                                     *)
(***************************************************************************)
EXTENDS Integers, Sequences, FiniteSets, TLC

\* fixed-point resolution: three decimals
Scale == 10 * 10 * 10

\* JavaScript null / an absent object
Null == [null |-> TRUE]

VARIABLES
    currentPath,            \* this.currentPath: Null or [dx, dz, duration, score, name]
    pathStartTime,          \* this.pathStartTime
    pathEndTime,            \* this.pathEndTime
    waitEndTime,            \* this.waitEndTime
    enableHoleAvoidance,    \* this.enableHoleAvoidance
    enableThinkingTime,     \* this.enableThinkingTime
    enableEnemyAvoidance,   \* this.enableEnemyAvoidance
    minEnemyDistance,       \* this.minEnemyDistance
    clock,                  \* the wall clock, Date.now() / 1000
    op,                     \* the operation called last
    args,                   \* the arguments of the last planning call, else Null
    ret,                    \* what the last call returned, Null for a void method,
                            \* TypeError for a call that threw
    sinceReset,             \* "reset" from a reset() to the next suggestMove,
                            \* "first" once that suggestMove has returned, else "other"
    that                    \* the other ComputerAI instance of the program: the
                            \* variables above belong to the instance a method is
                            \* called on (this), that holds the same for the other
                            \* instance, with its name in that.id

vars == << currentPath, pathStartTime, pathEndTime, waitEndTime,
           enableHoleAvoidance, enableThinkingTime, enableEnemyAvoidance,
           minEnemyDistance, clock, op, args, ret, sinceReset, that >>

Abs(a) == IF a < 0 THEN -a ELSE a

Min(a, b) == IF a < b THEN a ELSE b

Max(a, b) == IF a > b THEN a ELSE b

\* a / b for b > 0, rounded toward zero
TDiv(a, b) == IF a >= 0 THEN a \div b ELSE -((-a) \div b)

RECURSIVE SqrtIter(_, _, _)
SqrtIter(n, lo, hi) ==
    IF lo >= hi THEN lo
    ELSE LET mid == (lo + hi + 1) \div 2
         IN  IF mid * mid <= n THEN SqrtIter(n, mid, hi)
                               ELSE SqrtIter(n, lo, mid - 1)

\* Math.sqrt on a non-negative integer (floor)
ISqrt(n) == SqrtIter(n, 0, 46340)

RECURSIVE Newton(_, _)
\* Heron's iteration down from a guess x >= sqrt(n), x > 0: the floor of sqrt(n)
Newton(n, x) ==
    LET y == (x + n \div x) \div 2
    IN  IF y >= x THEN x ELSE Newton(n, y)

\* Math.sqrt(a*a + b*b) for fixed-point a, b; beyond 30 units the operands are
\* quartered first so that the squares stay inside TLC's integers
Hypot(a, b) ==
    IF a = 0 /\ b = 0 THEN 0
    ELSE IF Abs(a) <= 30000 /\ Abs(b) <= 30000
    THEN Newton(a * a + b * b, Abs(a) + Abs(b))
    ELSE LET qa == TDiv(a, 4)
             qb == TDiv(b, 4)
         IN  4 * Newton(qa * qa + qb * qb, Abs(qa) + Abs(qb))

RECURSIVE SumFn(_, _, _)
\* f[lo] + ... + f[hi]
SumFn(f, lo, hi) == IF lo > hi THEN 0 ELSE f[lo] + SumFn(f, lo + 1, hi)

SetMin(S) == CHOOSE m \in S : \A o \in S : m <= o

Range(s) == {s[i] : i \in 1..Len(s)}

(***************************************************************************)
(* Difficulty mapper                                                       *)
(***************************************************************************)

\* aiLevel / 10
calculateSkillFromLevel(aiLevel) == TDiv(aiLevel * Scale, 10)

\* mutant: the constants of the shorter tuning, 0.8 - skill * 0.5
calculatePathDuration_short(skill) == 800 - TDiv(skill * 500, Scale)

\* 1.6 - skill * 1.0   (seconds)
calculatePathDuration(skill) == 1600 - TDiv(skill * 1000, Scale)

\* mutant: the lookahead falling with the skill
calculateLookaheadPercent_falling(skill) == 900 - TDiv(skill * 600, Scale)

\* 0.3 + skill * 0.6
calculateLookaheadPercent(skill) == 300 + TDiv(skill * 600, Scale)

\* baseMeteorSpeed + currentScore * 0.15 ; currentScore is an integer
calculateMeteorSpeed(currentScore) ==
    LET baseMeteorSpeed == 8 * Scale
        speedBoost == currentScore * 150
    IN  baseMeteorSpeed + speedBoost

(***************************************************************************)
(* Direction catalog                                                       *)
(***************************************************************************)

\* Math.sqrt(2) / 2 in milli-units, truncated (707).  In exact arithmetic an axis
\* move and a diagonal move can score the same in an empty arena beyond level 10;
\* IEEE doubles and the truncation here may then order the two differently.  No
\* property below depends on the order of such a tie.
sqrt22 == ISqrt(2 * Scale * Scale) \div 2

getAllPossibleDirections ==
    << [dx |-> 0,       dz |-> 0,       name |-> "stay"],
       [dx |-> -Scale,  dz |-> 0,       name |-> "left"],
       [dx |-> Scale,   dz |-> 0,       name |-> "right"],
       [dx |-> 0,       dz |-> -Scale,  name |-> "forward"],
       [dx |-> 0,       dz |-> Scale,   name |-> "backward"],
       [dx |-> -sqrt22, dz |-> -sqrt22, name |-> "left-forward"],
       [dx |-> sqrt22,  dz |-> -sqrt22, name |-> "right-forward"],
       [dx |-> -sqrt22, dz |-> sqrt22,  name |-> "left-backward"],
       [dx |-> sqrt22,  dz |-> sqrt22,  name |-> "right-backward"] >>

(***************************************************************************)
(* Hazard predictor                                                        *)
(* A JavaScript object is a record; a property the object does not have is *)
(* a field the record does not have.                                       *)
(***************************************************************************)

Has(obj, field) == field \in DOMAIN obj

\* what a call that ends in an uncaught TypeError hands to its caller
TypeError == [throw |-> "TypeError"]

\* the map callback of predictMeteorPositions reads m.velocity and
\* m.position.x without a guard: it throws for an entry that is null or has no
\* position
throwsTypeError(meteors) ==
    \E i \in 1..Len(meteors) : meteors[i] = Null \/ ~Has(meteors[i], "position")

\* m.velocity || { x: 0, y: -meteorSpeed, z: 0 }
predictMeteorPositions(meteors, meteorSpeed, predictionTime) ==
    [i \in 1..Len(meteors) |->
        LET m == meteors[i]
            velocity == IF Has(m, "velocity") THEN m.velocity
                        ELSE [x |-> 0, y |-> -meteorSpeed, z |-> 0]
        IN  [currentX |-> m.position.x,
             currentY |-> m.position.y,
             currentZ |-> m.position.z,
             velocity |-> velocity,
             predictionTime |-> predictionTime]]

\* e.position.y || 0.6
EnemyY(e) == IF Has(e.position, "y") /\ e.position.y # 0 THEN e.position.y ELSE 600

\* one enemy of predictEnemyPositions' map: Null for an entry that is dropped
predictEnemy(e, playerPosition, pathDuration) ==
    IF e = Null \/ ~Has(e, "position") THEN Null
    ELSE LET estimatedEnemySpeed == 2600
             dx == playerPosition.x - e.position.x
             dz == playerPosition.z - e.position.z
             dist == Hypot(dx, dz)
         IN  IF dist < 1
             THEN [currentX |-> e.position.x,
                   currentY |-> EnemyY(e),
                   currentZ |-> e.position.z,
                   velocity |-> [x |-> 0, y |-> 0, z |-> 0],
                   predictionTime |-> pathDuration]
             ELSE LET normalizedDx == TDiv(dx * Scale, dist)
                      normalizedDz == TDiv(dz * Scale, dist)
                  IN  [currentX |-> e.position.x,
                       currentY |-> EnemyY(e),
                       currentZ |-> e.position.z,
                       velocity |-> [x |-> TDiv(normalizedDx * estimatedEnemySpeed, Scale),
                                     y |-> 0,
                                     z |-> TDiv(normalizedDz * estimatedEnemySpeed, Scale)],
                       predictionTime |-> pathDuration]

\* mutant: the enemy-avoidance flag is not consulted
predictEnemyPositions_always(enemies, playerPosition, pathDuration) ==
    IF Len(enemies) = 0
    THEN << >>
    ELSE SelectSeq([i \in 1..Len(enemies) |->
                        predictEnemy(enemies[i], playerPosition, pathDuration)],
                   LAMBDA e : e # Null)

predictEnemyPositions(enemies, playerPosition, pathDuration) ==
    IF ~enableEnemyAvoidance \/ Len(enemies) = 0
    THEN << >>
    ELSE SelectSeq([i \in 1..Len(enemies) |->
                        predictEnemy(enemies[i], playerPosition, pathDuration)],
                   LAMBDA e : e # Null)

(***************************************************************************)
(* Holes                                                                   *)
(***************************************************************************)

calculatePositionAlongPath(startPos, direction, playerSpeed, time) ==
    [x |-> startPos.x + TDiv(direction.dx * playerSpeed * time, Scale),
     z |-> startPos.z + TDiv(direction.dz * playerSpeed * time, Scale)]

\* mutant: the open square
isPositionInHole_open(position, hole) ==
    /\ position.x > (hole.x - hole.halfSize)
    /\ position.x < (hole.x + hole.halfSize)
    /\ position.z > (hole.z - hole.halfSize)
    /\ position.z < (hole.z + hole.halfSize)

isPositionInHole(position, hole) ==
    /\ position.x >= (hole.x - hole.halfSize)
    /\ position.x <= (hole.x + hole.halfSize)
    /\ position.z >= (hole.z - hole.halfSize)
    /\ position.z <= (hole.z + hole.halfSize)

isPositionInAnyHole(position, holeSpecs) ==
    \E h \in 1..Len(holeSpecs) : isPositionInHole(position, holeSpecs[h])

pathContainsHole(direction, startPos, predictedMeteors, pathDuration, lookaheadPercent, holes) ==
    IF ~enableHoleAvoidance THEN FALSE
    ELSE LET holeSpecs == IF Len(holes) > 0 THEN holes ELSE << >>
             playerSpeed == 12
             numSamples == 10
         IN  \E i \in 0..numSamples :
                LET t == TDiv(i * pathDuration, numSamples)
                    position == calculatePositionAlongPath(startPos, direction, playerSpeed, t)
                IN  isPositionInAnyHole(position, holeSpecs)

(***************************************************************************)
(* Path scorer                                                             *)
(***************************************************************************)

calculateBoundsPenalty(endX, endZ, worldHalf) ==
    (IF Abs(endX) > worldHalf - Scale
        THEN 500 * (Abs(endX) - (worldHalf - Scale)) ELSE 0)
    + (IF Abs(endZ) > worldHalf - Scale
        THEN 500 * (Abs(endZ) - (worldHalf - Scale)) ELSE 0)

scoreMovementBonus(direction) ==
    IF direction.dx # 0 \/ direction.dz # 0 THEN 30 * Scale ELSE 0

\* one meteor of scoreMeteorCollisionAtPoint's loop:
\* whether it is near player height, its distance and its penalty
meteorAtPoint(playerX, playerZ, time, meteor) ==
    LET effectiveT == Min(time, meteor.predictionTime)
        meteorX == meteor.currentX + TDiv(meteor.velocity.x * effectiveT, Scale)
        meteorY == meteor.currentY + TDiv(meteor.velocity.y * effectiveT, Scale)
        meteorZ == meteor.currentZ + TDiv(meteor.velocity.z * effectiveT, Scale)
        near == Abs(meteorY - Scale) < 4 * Scale
        dist == Hypot(playerX - meteorX, playerZ - meteorZ)
        heightFactor == Max(0, Scale - TDiv(Abs(meteorY - Scale), 2))
    IN  [near |-> near,
         dist |-> dist,
         penalty |-> IF ~near THEN 0
                     ELSE IF dist < 1600 THEN 1000 * heightFactor
                     ELSE IF dist < 3500 THEN TDiv(200 * heightFactor * Scale, Max(dist, 500))
                     ELSE IF dist < 5000 THEN TDiv(30 * heightFactor * Scale, dist)
                     ELSE 0]

scoreMeteorCollisionAtPoint(playerX, playerZ, time, predictedMeteors) ==
    LET at == [m \in 1..Len(predictedMeteors) |->
                    meteorAtPoint(playerX, playerZ, time, predictedMeteors[m])]
        penalties == [m \in 1..Len(predictedMeteors) |-> at[m].penalty]
        dists == {at[m].dist : m \in {k \in 1..Len(predictedMeteors) : at[k].near}}
    IN  - SumFn(penalties, 1, Len(predictedMeteors))
        + (IF dists # {} THEN Min(SetMin(dists) * 5, 50 * Scale) ELSE 0)

scoreMeteorCollisions(direction, startPos, predictedMeteors, pathDuration, playerSpeed) ==
    LET numSamples == 8
        atSample == [i \in 0..numSamples |->
            LET t == TDiv(i * pathDuration, numSamples)
                playerX == startPos.x + TDiv(direction.dx * playerSpeed * t, Scale)
                playerZ == startPos.z + TDiv(direction.dz * playerSpeed * t, Scale)
            IN  scoreMeteorCollisionAtPoint(playerX, playerZ, t, predictedMeteors)]
    IN  SumFn(atSample, 0, numSamples)

scoreCenterPreference(endX, endZ) ==
    LET centerDist == Hypot(endX, endZ)
    IN  -centerDist * 2

scoreEdgeAvoidance(endX, endZ, worldHalf) ==
    LET edgeDistX == worldHalf - Abs(endX)
        edgeDistZ == worldHalf - Abs(endZ)
        minEdgeDist == Min(edgeDistX, edgeDistZ)
    IN  IF minEdgeDist < 2 * Scale THEN -150 * (2 * Scale - minEdgeDist) ELSE 0

countNearbyThreats(startPos, predictedMeteors) ==
    Cardinality({m \in 1..Len(predictedMeteors) :
        LET dist == Hypot(startPos.x - predictedMeteors[m].currentX,
                          startPos.z - predictedMeteors[m].currentZ)
        IN  dist < 6 * Scale /\ Abs(predictedMeteors[m].currentY - Scale) < 5 * Scale})

scoreStillnessPenalty(direction, startPos, predictedMeteors) ==
    IF direction.dx = 0 /\ direction.dz = 0
    THEN LET nearbyThreats == countNearbyThreats(startPos, predictedMeteors)
         IN  IF nearbyThreats > 0 THEN -50 * Scale * Min(nearbyThreats, 5)
                                  ELSE -10 * Scale
    ELSE 0

\* mutant: the penalty only for a path that ends in a hole
scoreHolePenalty_atEnd(direction, startPos, predictedMeteors, pathDuration, lookaheadPercent, aiLevel, holes) ==
    IF /\ enableHoleAvoidance
       /\ isPositionInAnyHole(calculatePositionAlongPath(startPos, direction, 12, pathDuration),
                              holes)
    THEN -20 * Scale * aiLevel
    ELSE 0

scoreHolePenalty(direction, startPos, predictedMeteors, pathDuration, lookaheadPercent, aiLevel, holes) ==
    IF pathContainsHole(direction, startPos, predictedMeteors, pathDuration, lookaheadPercent, holes)
    THEN -20 * Scale * aiLevel
    ELSE 0

\* one enemy of scoreEnemyCollisionAtPoint's first loop: its distance and penalty
enemyAtPoint(playerX, playerZ, time, enemy) ==
    LET effectiveT == Min(time, enemy.predictionTime)
        enemyX == enemy.currentX + TDiv(enemy.velocity.x * effectiveT, Scale)
        enemyZ == enemy.currentZ + TDiv(enemy.velocity.z * effectiveT, Scale)
        dist == Hypot(playerX - enemyX, playerZ - enemyZ)
    IN  [dist |-> dist,
         penalty |-> IF dist < 2000 THEN 1500 * Scale
                     ELSE IF dist < 4000 THEN TDiv(400 * Scale * Scale, Max(dist, 500))
                     ELSE IF dist < 6000 THEN TDiv(50 * Scale * Scale, dist)
                     ELSE IF dist < 8000 THEN TDiv(10 * Scale * Scale, dist)
                     ELSE 0]

scoreEnemyCollisionAtPoint(playerX, playerZ, time, predictedEnemies, playerStartPos) ==
    IF ~enableEnemyAvoidance \/ Len(predictedEnemies) = 0 THEN 0
    ELSE
    LET n == Len(predictedEnemies)
        at == [e \in 1..n |-> enemyAtPoint(playerX, playerZ, time, predictedEnemies[e])]
        penalties == [e \in 1..n |-> at[e].penalty]
        minDist == SetMin({at[e].dist : e \in 1..n})
        startDist == SetMin({Hypot(playerStartPos.x - predictedEnemies[e].currentX,
                                   playerStartPos.z - predictedEnemies[e].currentZ) : e \in 1..n})
        maintenance ==
            IF minDist < minEnemyDistance
            THEN LET distanceBelow == minEnemyDistance - minDist
                 IN  - 300 * distanceBelow
                     + (IF minDist > startDist THEN 150 * (minDist - startDist)
                        ELSE IF minDist < startDist THEN - 200 * (startDist - minDist)
                        ELSE 0)
            ELSE LET distanceAbove == minDist - minEnemyDistance
                 IN  40 * Min(distanceAbove, 5 * Scale)
                     + (IF distanceAbove > 2000 THEN 30 * Scale ELSE 0)
                     + (IF minDist > startDist
                        THEN 20 * Min(minDist - startDist, 3 * Scale) ELSE 0)
    IN  - SumFn(penalties, 1, n) + maintenance

scoreEnemyCollisions(direction, startPos, predictedEnemies, pathDuration, playerSpeed) ==
    IF ~enableEnemyAvoidance \/ Len(predictedEnemies) = 0 THEN 0
    ELSE
    LET numSamples == 8
        atSample == [i \in 0..numSamples |->
            LET t == TDiv(i * pathDuration, numSamples)
                playerX == startPos.x + TDiv(direction.dx * playerSpeed * t, Scale)
                playerZ == startPos.z + TDiv(direction.dz * playerSpeed * t, Scale)
            IN  scoreEnemyCollisionAtPoint(playerX, playerZ, t, predictedEnemies, startPos)]
    IN  SumFn(atSample, 0, numSamples)

evaluatePath(direction, startPos, predictedMeteors, pathDuration, lookaheadPercent, aiLevel, predictedEnemies, holes) ==
    LET playerSpeed == 12
        worldHalf == 9 * Scale
        rawEndX == startPos.x + TDiv(direction.dx * playerSpeed * pathDuration, Scale)
        rawEndZ == startPos.z + TDiv(direction.dz * playerSpeed * pathDuration, Scale)
        boundsPenalty == calculateBoundsPenalty(rawEndX, rawEndZ, worldHalf)
        endX == Max(-worldHalf + Scale, Min(worldHalf - Scale, rawEndX))
        endZ == Max(-worldHalf + Scale, Min(worldHalf - Scale, rawEndZ))
    IN  scoreMovementBonus(direction)
        + scoreMeteorCollisions(direction, startPos, predictedMeteors, pathDuration, playerSpeed)
        + scoreEnemyCollisions(direction, startPos, predictedEnemies, pathDuration, playerSpeed)
        + scoreCenterPreference(endX, endZ)
        + scoreEdgeAvoidance(endX, endZ, worldHalf)
        + scoreStillnessPenalty(direction, startPos, predictedMeteors)
        + scoreHolePenalty(direction, startPos, predictedMeteors, pathDuration, lookaheadPercent, aiLevel, holes)
        - boundsPenalty

(***************************************************************************)
(* Path selector                                                           *)
(***************************************************************************)

\* mutant: the last of the best directions wins
Better_lastWins(score, bestPath) == bestPath = Null \/ score >= bestPath.score

\* score > bestScore, bestScore being -Infinity while bestPath is null
Better(score, bestPath) == bestPath = Null \/ score > bestPath.score

RECURSIVE bestUpTo(_, _, _, _)
\* bestPath after the loop of selectBestPath has seen directions[1..k]
bestUpTo(directions, scores, pathDuration, k) ==
    IF k = 0 THEN Null
    ELSE LET bestPath == bestUpTo(directions, scores, pathDuration, k - 1)
             dir == directions[k]
         IN  IF Better(scores[k], bestPath)
             THEN [dx |-> dir.dx, dz |-> dir.dz, duration |-> pathDuration,
                   score |-> scores[k], name |-> dir.name]
             ELSE bestPath

selectBestPath(directions, position, predictedMeteors, pathDuration, lookaheadPercent, aiLevel, predictedEnemies, holes) ==
    LET scores == [k \in 1..Len(directions) |->
                      evaluatePath(directions[k], position, predictedMeteors, pathDuration,
                                   lookaheadPercent, aiLevel, predictedEnemies, holes)]
    IN  bestUpTo(directions, scores, pathDuration, Len(directions))

planNewPath(meteors, position, currentScore, aiLevel, enemies, holes) ==
    IF throwsTypeError(meteors) THEN TypeError ELSE
    LET skill == calculateSkillFromLevel(aiLevel)
        pathDuration == calculatePathDuration(skill)
        lookaheadPercent == calculateLookaheadPercent(skill)
        meteorFallSpeed == calculateMeteorSpeed(currentScore)
        predictionTime == TDiv(pathDuration * lookaheadPercent, Scale)
        predictedMeteors == predictMeteorPositions(meteors, meteorFallSpeed, predictionTime)
        predictedEnemies == predictEnemyPositions(enemies, position, pathDuration)
        directions == getAllPossibleDirections
        bestPath == selectBestPath(directions, position, predictedMeteors, pathDuration,
                                   lookaheadPercent, aiLevel, predictedEnemies, holes)
    IN  IF bestPath # Null THEN bestPath
        ELSE [dx |-> 0, dz |-> 0, duration |-> pathDuration, score |-> 0]

(***************************************************************************)
(* Planning timer                                                          *)
(***************************************************************************)

\* a parameter with a default value (param = dflt in the signature); call is the
\* record of the arguments the caller passes
Default(call, param, dflt) == IF Has(call, param) THEN call[param] ELSE dflt

\* mutant: the path's duration left out of the comparison
shouldPlanNewPath_noDuration(currentTime) ==
    currentPath = Null \/ currentTime >= pathStartTime

shouldPlanNewPath(currentTime) ==
    currentPath = Null \/ currentTime >= pathStartTime + currentPath.duration

\* mutant: no wait period
isInWaitPeriod_never(currentTime) == FALSE

\* mutant: the wait period never ends once the path has ended
isInWaitPeriod_forever(currentTime) == currentTime >= pathEndTime

\* mutant: the wrong timestamp compared
isInWaitPeriod_pathEnd(currentTime) == currentTime < pathEndTime

isInWaitPeriod(currentTime) == currentTime < waitEndTime

\* milliseconds
calculateWaitTime(aiLevel) ==
    IF enableThinkingTime THEN 500 - (aiLevel * 50) ELSE 0

\* mutant: the direction scaled by the player speed of the scorer
getCurrentPathDirection_velocity(path) == [dx |-> path.dx * 12, dz |-> path.dz * 12]

getCurrentPathDirection(path) == [dx |-> path.dx, dz |-> path.dz]

Flags == << enableHoleAvoidance, enableThinkingTime, enableEnemyAvoidance, minEnemyDistance >>

Timer == << currentPath, pathStartTime, pathEndTime, waitEndTime >>

\* mutant: the wait time not clamped at 0
planAndStartNewPath_noClamp(meteors, position, currentScore, aiLevel, currentTime, enemies, holes) ==
    LET path == planNewPath(meteors, position, currentScore, aiLevel, enemies, holes)
        waitTimeMs == IF enableThinkingTime THEN 500 - (aiLevel * 50) ELSE 0
        waitTimeSec == TDiv(waitTimeMs * Scale, 1000)
    IN  IF throwsTypeError(meteors)   \* planNewPath threw: nothing is assigned
        THEN UNCHANGED Timer
        ELSE /\ currentPath' = path
             /\ pathStartTime' = currentTime
             /\ pathEndTime' = currentTime + currentPath'.duration
             /\ waitEndTime' = pathEndTime' + waitTimeSec

planAndStartNewPath(meteors, position, currentScore, aiLevel, currentTime, enemies, holes) ==
    LET path == planNewPath(meteors, position, currentScore, aiLevel, enemies, holes)
        waitTimeMs == calculateWaitTime(aiLevel)
        waitTimeSec == TDiv(Max(0, waitTimeMs) * Scale, 1000)
    IN  IF throwsTypeError(meteors)
        THEN \* planNewPath threw: the exception leaves planAndStartNewPath before the first assignment
             UNCHANGED Timer
        ELSE /\ currentPath' = path
             /\ pathStartTime' = currentTime
             /\ pathEndTime' = currentTime + currentPath'.duration
             /\ waitEndTime' = pathEndTime' + waitTimeSec

\* mutant: the wait period tested before the path's end
suggestMove_waitFirst(call) ==
    LET meteors == call.meteors
        position == call.position
        currentScore == Default(call, "currentScore", 0)
        aiLevel == Default(call, "aiLevel", 5)
        enemies == Default(call, "enemies", << >>)
        holes == Default(call, "holes", << >>)
        currentTime == clock
    IN  /\ op' = "suggestMove"
        /\ sinceReset' = IF sinceReset = "reset" THEN "first" ELSE "other"
        /\ UNCHANGED << Flags, clock, that >>
        /\ IF isInWaitPeriod(currentTime)
           THEN /\ ret' = [dx |-> 0, dz |-> 0]
                /\ args' = Null
                /\ UNCHANGED Timer
           ELSE IF shouldPlanNewPath(currentTime)
           THEN /\ planAndStartNewPath(meteors, position, currentScore, aiLevel,
                                       currentTime, enemies, holes)
                /\ args' = [meteors |-> meteors, position |-> position,
                            currentScore |-> currentScore, aiLevel |-> aiLevel,
                            enemies |-> enemies, holes |-> holes]
                /\ ret' = IF throwsTypeError(meteors) THEN TypeError ELSE getCurrentPathDirection(currentPath')
           ELSE /\ ret' = getCurrentPathDirection(currentPath)
                /\ args' = Null
                /\ UNCHANGED Timer

suggestMove(call) ==
    LET meteors == call.meteors
        position == call.position
        currentScore == Default(call, "currentScore", 0)
        aiLevel == Default(call, "aiLevel", 5)
        enemies == Default(call, "enemies", << >>)
        holes == Default(call, "holes", << >>)
        currentTime == clock
    IN  /\ op' = "suggestMove"
        /\ sinceReset' = IF sinceReset = "reset" THEN "first" ELSE "other"
        /\ UNCHANGED << Flags, clock, that >>
        /\ IF shouldPlanNewPath(currentTime)
           THEN IF isInWaitPeriod(currentTime)
                THEN /\ ret' = [dx |-> 0, dz |-> 0]
                     /\ args' = Null
                     /\ UNCHANGED Timer
                ELSE /\ planAndStartNewPath(meteors, position, currentScore, aiLevel,
                                            currentTime, enemies, holes)
                     /\ args' = [meteors |-> meteors, position |-> position,
                                 currentScore |-> currentScore, aiLevel |-> aiLevel,
                                 enemies |-> enemies, holes |-> holes]
                     /\ ret' = IF throwsTypeError(meteors) THEN TypeError ELSE getCurrentPathDirection(currentPath')
           ELSE /\ ret' = getCurrentPathDirection(currentPath)
                /\ args' = Null
                /\ UNCHANGED Timer

\* mutant: currentPath not cleared
reset_keepPath ==
    /\ currentPath' = currentPath
    /\ pathStartTime' = 0
    /\ pathEndTime' = 0
    /\ waitEndTime' = 0
    /\ op' = "reset"
    /\ args' = Null
    /\ ret' = Null
    /\ sinceReset' = "reset"
    /\ UNCHANGED << enableHoleAvoidance, enableThinkingTime, enableEnemyAvoidance,
                    minEnemyDistance, clock, that >>

\* mutant: waitEndTime not zeroed
reset_keepWait ==
    /\ currentPath' = Null
    /\ pathStartTime' = 0
    /\ pathEndTime' = 0
    /\ waitEndTime' = waitEndTime
    /\ op' = "reset"
    /\ args' = Null
    /\ ret' = Null
    /\ sinceReset' = "reset"
    /\ UNCHANGED << enableHoleAvoidance, enableThinkingTime, enableEnemyAvoidance,
                    minEnemyDistance, clock, that >>

reset ==
    /\ currentPath' = Null
    /\ pathStartTime' = 0
    /\ pathEndTime' = 0
    /\ waitEndTime' = 0
    /\ op' = "reset"
    /\ args' = Null
    /\ ret' = Null
    /\ sinceReset' = "reset"
    /\ UNCHANGED << Flags, clock, that >>

\* !!enabled for the values a caller passes
ToBoolean(v) ==
    CASE v.type = "boolean" -> v.value
      [] v.type = "number" -> v.value # 0
      [] v.type = "undefined" -> FALSE

setHoleAvoidanceEnabled(enabled) ==
    /\ enableHoleAvoidance' = ToBoolean(enabled)
    /\ op' = "setHoleAvoidanceEnabled"
    /\ args' = Null
    /\ ret' = Null
    /\ UNCHANGED << Timer, enableThinkingTime, enableEnemyAvoidance, minEnemyDistance, clock, sinceReset, that >>

\* mutant: switching thinking-time off also ends the wait period of the path
\* in progress
setThinkingTimeEnabled_endWait(enabled) ==
    /\ enableThinkingTime' = ToBoolean(enabled)
    /\ waitEndTime' = IF ToBoolean(enabled) THEN waitEndTime ELSE pathEndTime
    /\ op' = "setThinkingTimeEnabled"
    /\ args' = Null
    /\ ret' = Null
    /\ UNCHANGED << currentPath, pathStartTime, pathEndTime, enableHoleAvoidance,
                    enableEnemyAvoidance, minEnemyDistance, clock, sinceReset, that >>

setThinkingTimeEnabled(enabled) ==
    /\ enableThinkingTime' = ToBoolean(enabled)
    /\ op' = "setThinkingTimeEnabled"
    /\ args' = Null
    /\ ret' = Null
    /\ UNCHANGED << Timer, enableHoleAvoidance, enableEnemyAvoidance, minEnemyDistance, clock, sinceReset, that >>

setEnemyAvoidanceEnabled(enabled) ==
    /\ enableEnemyAvoidance' = ToBoolean(enabled)
    /\ op' = "setEnemyAvoidanceEnabled"
    /\ args' = Null
    /\ ret' = Null
    /\ UNCHANGED << Timer, enableHoleAvoidance, enableThinkingTime, minEnemyDistance, clock, sinceReset, that >>

\* the state a new ComputerAI() is in
constructor ==
    /\ currentPath = Null
    /\ pathStartTime = 0
    /\ pathEndTime = 0
    /\ waitEndTime = 0
    /\ enableHoleAvoidance = TRUE
    /\ enableThinkingTime = TRUE
    /\ enableEnemyAvoidance = TRUE
    /\ minEnemyDistance = 5 * Scale

(***************************************************************************)
(* The environment: the wall clock and the callers' inputs                 *)
(***************************************************************************)

\* the clock stops here (1/1000 s)
MaxTime == 1400

\* how far the wall clock moves between two calls (1/1000 s)
TickSteps == {500, 700}

Tick ==
    /\ \E d \in TickSteps :
          /\ clock + d <= MaxTime
          /\ clock' = clock + d
    /\ op' = "tick"
    /\ args' = Null
    /\ ret' = Null
    /\ UNCHANGED << Timer, Flags, sinceReset, that >>

Pos(x, y, z) == [x |-> x, y |-> y, z |-> z]

\* the game states the callers pass
Empty ==
    \* an empty arena, the agent at its centre
    [meteors |-> << >>, position |-> Pos(0, 1000, 0), currentScore |-> 0,
     enemies |-> << >>, holes |-> << >>]

Crowded ==
    \* a meteor coming down on the agent, an enemy to the right of the agent,
    \* a hole behind it
    [meteors |-> << [position |-> Pos(3000, 4000, -1000),
                     velocity |-> Pos(-1000, -9000, 0)] >>,
     position |-> Pos(2000, 1000, -1000), currentScore |-> 20,
     enemies |-> << [position |-> Pos(6000, 0, -1000)] >>,
     holes |-> << [x |-> 0, z |-> 3000, halfSize |-> 1500] >>]

\* the optional arguments left out; a meteor that carries no velocity
Defaults ==
    [meteors |-> << [position |-> Pos(-6000, 5000, 500)] >>,
     position |-> Pos(-7000, 1000, 0)]

\* a scenario with the aiLevel argument
At(s, l) == [f \in DOMAIN s \cup {"aiLevel"} |-> IF f = "aiLevel" THEN l ELSE s[f]]

\* the argument records of the calls
Calls == { At(Empty, 1), At(Empty, 10), At(Empty, 11), At(Crowded, 9), Defaults }

SetterArgs ==
    { [type |-> "boolean", value |-> TRUE], [type |-> "boolean", value |-> FALSE],
      [type |-> "number", value |-> 0], [type |-> "number", value |-> 1],
      [type |-> "undefined"] }

\* a ComputerAI just constructed, as the record that holds for the instance
\* named id
Constructed(id) ==
    [id |-> id,
     currentPath |-> Null, pathStartTime |-> 0, pathEndTime |-> 0, waitEndTime |-> 0,
     enableHoleAvoidance |-> TRUE, enableThinkingTime |-> TRUE,
     enableEnemyAvoidance |-> TRUE, minEnemyDistance |-> 5 * Scale,
     op |-> "new", args |-> Null, ret |-> Null, sinceReset |-> "other"]

\* the module is loaded: defaultAI = new ComputerAI(); a caller has constructed
\* a second instance, ai2, of its own
Init ==
    /\ constructor
    /\ clock = 0
    /\ op = "new"
    /\ args = Null
    /\ ret = Null
    /\ sinceReset = "other"
    /\ that = Constructed("ai2")

Next ==
    \/ Tick
    \/ \E call \in Calls : suggestMove(call)
    \/ reset
    \/ \E enabled \in SetterArgs : setHoleAvoidanceEnabled(enabled)
    \/ \E enabled \in SetterArgs : setThinkingTimeEnabled(enabled)
    \/ \E enabled \in SetterArgs : setEnemyAvoidanceEnabled(enabled)

Spec == Init /\ [][Next]_vars

(***************************************************************************)
(* The scorer on its own.  The methods of the scorer are pure functions of *)
(* their arguments and of the flags of the instance.  Here each of them is *)
(* called directly, once, on an instance whose flags the setters have set. *)
(* args holds the arguments of the method called, ret what it returned (a  *)
(* number as [value |-> n]).  A caller that compares a score across the    *)
(* hole-avoidance toggle keeps both through the setter call, with the      *)
(* method's name and the value the flag had when the method ran.           *)
(***************************************************************************)

\* the arguments of a call after the default parameter values are filled in
WithDefaults(call) ==
    [meteors |-> call.meteors, position |-> call.position,
     currentScore |-> Default(call, "currentScore", 0),
     aiLevel |-> Default(call, "aiLevel", 5),
     enemies |-> Default(call, "enemies", << >>),
     holes |-> Default(call, "holes", << >>)]

\* the values planNewPath computes from the arguments a before it selects
Prepared(a) ==
    LET skill == calculateSkillFromLevel(a.aiLevel)
        pathDuration == calculatePathDuration(skill)
        lookaheadPercent == calculateLookaheadPercent(skill)
        meteorFallSpeed == calculateMeteorSpeed(a.currentScore)
        predictionTime == TDiv(pathDuration * lookaheadPercent, Scale)
    IN  [pathDuration |-> pathDuration,
         lookaheadPercent |-> lookaheadPercent,
         predictedMeteors |->
            predictMeteorPositions(a.meteors, meteorFallSpeed, predictionTime),
         predictedEnemies |->
            predictEnemyPositions(a.enemies, a.position, pathDuration)]

\* the agent inside two holes that overlap
InHoles ==
    [meteors |-> << >>, position |-> Pos(3000, 1000, 0), currentScore |-> 0,
     enemies |-> << >>,
     holes |-> << [x |-> 2000, z |-> 0, halfSize |-> 1500],
                  [x |-> 3000, z |-> 500, halfSize |-> 1000] >>]

\* the agent on the edge of a hole, a meteor coming down next to it
OnEdge ==
    [meteors |-> << [position |-> Pos(-3000, 4000, 1000)] >>,
     position |-> Pos(-2500, 1000, 0), currentScore |-> 10,
     enemies |-> << >>,
     holes |-> << [x |-> -4000, z |-> 0, halfSize |-> 1500] >>]

\* two enemies, one of them an entry without a position; no enemies argument
\* comes with Defaults
Chased ==
    [meteors |-> << >>, position |-> Pos(1000, 1000, 1000), currentScore |-> 5,
     enemies |-> << [position |-> Pos(3000, 600, 1000)], [id |-> 7] >>,
     holes |-> << >>]

\* the argument records of the direct calls
ScorerCalls ==
    { At(Empty, 1), At(Empty, 10), At(Crowded, 9), At(InHoles, 3), At(InHoles, 10),
      At(OnEdge, 9), At(Chased, 6), Defaults }

\* the levels of the difficulty mapper
Levels == 1..10

\* the values a score takes in the loop of selectBestPath
ScoreValues == {-10 * Scale, 0}

\* the instance is freshly constructed or a setter was the last call on it,
\* and no method of the scorer has been called yet
Configured ==
    /\ op \in {"new", "setHoleAvoidanceEnabled", "setThinkingTimeEnabled",
                "setEnemyAvoidanceEnabled"}
    /\ args = Null

call_calculatePathDuration(aiLevel) ==
    /\ Configured
    /\ op' = "calculatePathDuration"
    /\ args' = [aiLevel |-> aiLevel]
    /\ ret' = [value |-> calculatePathDuration(calculateSkillFromLevel(aiLevel))]
    /\ UNCHANGED << Timer, Flags, clock, sinceReset, that >>

call_calculateLookaheadPercent(aiLevel) ==
    /\ Configured
    /\ op' = "calculateLookaheadPercent"
    /\ args' = [aiLevel |-> aiLevel]
    /\ ret' = [value |-> calculateLookaheadPercent(calculateSkillFromLevel(aiLevel))]
    /\ UNCHANGED << Timer, Flags, clock, sinceReset, that >>

call_predictEnemyPositions(call) ==
    LET a == WithDefaults(call)
    IN  /\ Configured
        /\ op' = "predictEnemyPositions"
        /\ args' = a
        /\ ret' = [value |-> predictEnemyPositions(a.enemies, a.position,
                                                   Prepared(a).pathDuration)]
        /\ UNCHANGED << Timer, Flags, clock, sinceReset, that >>

call_scoreHolePenalty(call, k) ==
    LET a == WithDefaults(call)
        p == Prepared(a)
    IN  /\ Configured
        /\ op' = "scoreHolePenalty"
        /\ args' = [call |-> a, direction |-> k]
        /\ ret' = [value |-> scoreHolePenalty(getAllPossibleDirections[k], a.position,
                                p.predictedMeteors, p.pathDuration, p.lookaheadPercent,
                                a.aiLevel, a.holes)]
        /\ UNCHANGED << Timer, Flags, clock, sinceReset, that >>

call_evaluatePath(call, k) ==
    LET a == WithDefaults(call)
        p == Prepared(a)
    IN  /\ Configured
        /\ op' = "evaluatePath"
        /\ args' = [method |-> "evaluatePath", call |-> a, direction |-> k,
                    holeAvoidance |-> enableHoleAvoidance]
        /\ ret' = [value |-> evaluatePath(getAllPossibleDirections[k], a.position,
                                p.predictedMeteors, p.pathDuration, p.lookaheadPercent,
                                a.aiLevel, p.predictedEnemies, a.holes)]
        /\ UNCHANGED << Timer, Flags, clock, sinceReset, that >>

call_selectBestPath(call) ==
    LET a == WithDefaults(call)
        p == Prepared(a)
    IN  /\ Configured
        /\ op' = "selectBestPath"
        /\ args' = [method |-> "selectBestPath", call |-> a,
                    holeAvoidance |-> enableHoleAvoidance]
        /\ ret' = selectBestPath(getAllPossibleDirections, a.position, p.predictedMeteors,
                                 p.pathDuration, p.lookaheadPercent, a.aiLevel,
                                 p.predictedEnemies, a.holes)
        /\ UNCHANGED << Timer, Flags, clock, sinceReset, that >>

\* the loop of selectBestPath run on the scores evaluatePath has returned
call_selectBestPath_loop(scores) ==
    /\ Configured
    /\ op' = "selectBestPath loop"
    /\ args' = [scores |-> scores, pathDuration |-> 600]
    /\ ret' = bestUpTo(getAllPossibleDirections, scores, 600,
                       Len(getAllPossibleDirections))
    /\ UNCHANGED << Timer, Flags, clock, sinceReset, that >>

call_planNewPath(call) ==
    LET a == WithDefaults(call)
    IN  /\ Configured
        /\ op' = "planNewPath"
        /\ args' = [method |-> "planNewPath", given |-> call, call |-> a]
        /\ ret' = planNewPath(a.meteors, a.position, a.currentScore, a.aiLevel,
                              a.enemies, a.holes)
        /\ UNCHANGED << Timer, Flags, clock, sinceReset, that >>

\* setHoleAvoidanceEnabled called by a caller that keeps the score or the
\* choice it has just got, to compare it with the one under the new flag
setHoleAvoidanceEnabled_between(enabled) ==
    /\ op \in {"evaluatePath", "selectBestPath"}
    /\ enableHoleAvoidance' = ToBoolean(enabled)
    /\ op' = "setHoleAvoidanceEnabled"
    /\ UNCHANGED << args, ret, Timer, enableThinkingTime, enableEnemyAvoidance,
                    minEnemyDistance, clock, sinceReset, that >>

NextScorer ==
    \/ \E aiLevel \in Levels : call_calculatePathDuration(aiLevel)
    \/ \E aiLevel \in Levels : call_calculateLookaheadPercent(aiLevel)
    \/ \E call \in ScorerCalls : call_predictEnemyPositions(call)
    \/ \E call \in ScorerCalls, k \in 1..9 : call_scoreHolePenalty(call, k)
    \/ \E call \in ScorerCalls, k \in 1..9 : call_evaluatePath(call, k)
    \/ \E call \in ScorerCalls : call_selectBestPath(call)
    \/ \E scores \in [1..9 -> ScoreValues] : call_selectBestPath_loop(scores)
    \/ \E call \in ScorerCalls : call_planNewPath(call)
    \/ \E enabled \in SetterArgs : setHoleAvoidanceEnabled_between(enabled)
    \/ \E enabled \in SetterArgs : setHoleAvoidanceEnabled(enabled)
    \/ \E enabled \in SetterArgs : setThinkingTimeEnabled(enabled)
    \/ \E enabled \in SetterArgs : setEnemyAvoidanceEnabled(enabled)

SpecScorer == Init /\ [][NextScorer]_vars

(***************************************************************************)
(* Callers that pass hazard lists with malformed entries                   *)
(***************************************************************************)

\* a meteor list whose second entry has no position
Hailed ==
    [meteors |-> << [position |-> Pos(-2000, 3000, 0), velocity |-> Pos(0, -8000, 0)],
                    [velocity |-> Pos(0, -8000, 0)] >>,
     position |-> Pos(-1000, 1000, 2000), currentScore |-> 0,
     enemies |-> << >>, holes |-> << >>]

\* the argument records of these callers: a malformed meteor, a malformed enemy
MalformedCalls == { At(Hailed, 8), At(Chased, 6), At(Chased, 10) }

NextMalformed ==
    \/ Tick
    \/ \E call \in MalformedCalls : suggestMove(call)
    \/ reset
    \/ \E enabled \in SetterArgs : setEnemyAvoidanceEnabled(enabled)

SpecMalformed == Init /\ [][NextMalformed]_vars

(***************************************************************************)
(* Two instances.  The module-level functions suggestMove and resetAI call *)
(* the methods of the one instance defaultAI; a caller that constructs its *)
(* own instance, ai2, calls the methods on it.  The variables of the timer *)
(* and the flags are those of the instance the next method is called on;   *)
(* switchInstance exchanges them with the record of the other instance,    *)
(* when the next call goes to the other instance.  No method assigns to    *)
(* anything but fields of this, so every action leaves that unchanged.     *)
(***************************************************************************)

\* the name of the instance the variables of the timer belong to
this == IF that.id = "ai2" THEN "defaultAI" ELSE "ai2"

\* mutant: the second instance is the same object as defaultAI, only the name
\* changes
switchInstance_sameObject ==
    /\ that' = [that EXCEPT !.id = this]
    /\ UNCHANGED << Timer, Flags, clock, op, args, ret, sinceReset >>

\* the next call goes to the other instance
switchInstance ==
    /\ currentPath' = that.currentPath
    /\ pathStartTime' = that.pathStartTime
    /\ pathEndTime' = that.pathEndTime
    /\ waitEndTime' = that.waitEndTime
    /\ enableHoleAvoidance' = that.enableHoleAvoidance
    /\ enableThinkingTime' = that.enableThinkingTime
    /\ enableEnemyAvoidance' = that.enableEnemyAvoidance
    /\ minEnemyDistance' = that.minEnemyDistance
    /\ op' = that.op
    /\ args' = that.args
    /\ ret' = that.ret
    /\ sinceReset' = that.sinceReset
    /\ that' = [id |-> this,
                currentPath |-> currentPath, pathStartTime |-> pathStartTime,
                pathEndTime |-> pathEndTime, waitEndTime |-> waitEndTime,
                enableHoleAvoidance |-> enableHoleAvoidance,
                enableThinkingTime |-> enableThinkingTime,
                enableEnemyAvoidance |-> enableEnemyAvoidance,
                minEnemyDistance |-> minEnemyDistance,
                op |-> op, args |-> args, ret |-> ret, sinceReset |-> sinceReset]
    /\ UNCHANGED clock

\* the two agents that are driven through the module-level functions: the
\* arguments the game passes for each
FirstAgent == At(Empty, 10)

SecondAgent == At(Crowded, 9)

AgentCalls == { FirstAgent, SecondAgent }

\* a call of suggestMove on the instance called: through the module-level
\* function, function suggestMove(...) { return defaultAI.suggestMove(...) },
\* for either agent; on ai2 by its owner, for the second agent
call_suggestMove(call) ==
    /\ this = "ai2" => call = SecondAgent
    /\ suggestMove(call)

\* function resetAI() { defaultAI.reset() }
resetAI ==
    /\ this = "defaultAI"
    /\ reset

\* the owner of ai2 switches thinking-time off on it
ai2_setThinkingTimeEnabled(enabled) ==
    /\ this = "ai2"
    /\ setThinkingTimeEnabled(enabled)

NextShared ==
    \/ Tick
    \/ switchInstance
    \/ \E call \in AgentCalls : call_suggestMove(call)
    \/ resetAI
    \/ ai2_setThinkingTimeEnabled([type |-> "boolean", value |-> FALSE])

SpecShared == Init /\ [][NextShared]_vars

(***************************************************************************)
(* A game loop that keeps calling.  The clock advances in frames up to     *)
(* LiveMaxTime and the loop calls suggestMove again and again with a level *)
(* in 1..10; reset and the thinking-time toggle may come in between.  The  *)
(* fairness conditions say what "keeps being called with an advancing      *)
(* clock" means: the clock advances as long as it can, and the loop never  *)
(* stops calling.                                                          *)
(***************************************************************************)

\* the clock of the game loop stops here (1/1000 s)
LiveMaxTime == 4500

\* the time between two frames of the game loop (1/1000 s)
LiveStep == 250

TickLive ==
    /\ clock + LiveStep <= LiveMaxTime
    /\ clock' = clock + LiveStep
    /\ op' = "tick"
    /\ args' = Null
    /\ ret' = Null
    /\ UNCHANGED << Timer, Flags, sinceReset, that >>

\* the argument records of the game loop: the slowest level, the fastest level
\* and one in between
LiveCalls == { At(Empty, 1), At(Crowded, 9), At(Empty, 10) }

\* some call of the game loop
CallLive == \E call \in LiveCalls : suggestMove(call)

NextLive ==
    \/ TickLive
    \/ CallLive
    \/ reset
    \/ \E enabled \in SetterArgs : setThinkingTimeEnabled(enabled)

\* the game loop keeps calling: again and again the last operation on the
\* instance is a call of suggestMove
KeepsCalling == []<>(op = "suggestMove")

SpecLive == Init /\ [][NextLive]_vars /\ WF_vars(TickLive) /\ KeepsCalling

(***************************************************************************)
(* Properties                                                              *)
(***************************************************************************)

\* the zero vector suggestMove returns while it pauses
ZeroVector == [dx |-> 0, dz |-> 0]

\* a step that is a call of suggestMove
SuggestMoveStep == op' = "suggestMove"

\* the committed path has not run its duration at the clock value now
InWindow(now) == currentPath # Null /\ now < pathStartTime + currentPath.duration

\* a re-plan is due at the clock value now
ReplanDue(now) == currentPath = Null \/ now >= pathStartTime + currentPath.duration

\* C1: a suggestMove call made while a path is committed and the clock is before
\* pathStartTime + currentPath.duration returns the dx, dz of that path,
\* whatever arguments the call passes.
C1_FollowingIsIdempotent ==
    [][ (SuggestMoveStep /\ InWindow(clock'))
            => ret' = [dx |-> currentPath.dx, dz |-> currentPath.dz] ]_vars

\* a call has returned the direction of a moving path committed earlier
C1_Witness ==
    /\ op = "suggestMove"
    /\ args = Null
    /\ InWindow(clock)
    /\ clock > pathStartTime
    /\ ret = [dx |-> currentPath.dx, dz |-> currentPath.dz]
    /\ ret # ZeroVector

\* C2: a suggestMove call made when a re-plan is due and the clock is before
\* waitEndTime returns the zero vector, plans nothing and commits nothing.
C2_WaitingRule ==
    [][ (SuggestMoveStep /\ ReplanDue(clock') /\ clock' < waitEndTime)
            => (ret' = ZeroVector /\ args' = Null /\ UNCHANGED Timer) ]_vars

\* a call has paused strictly inside the wait period of a moving path
C2_Witness ==
    /\ op = "suggestMove"
    /\ args = Null
    /\ currentPath # Null
    /\ clock > pathStartTime + currentPath.duration
    /\ clock < waitEndTime
    /\ ret = ZeroVector
    /\ currentPath.dx # 0

\* W of claim C3, in milliseconds
WaitMs(aiLevel, thinking) == IF thinking THEN Max(0, 500 - 50 * aiLevel) ELSE 0

\* C3: after a suggestMove call that planned at clock value now with level
\* aiLevel, pathStartTime = now and waitEndTime = now + currentPath.duration
\* + W/1000, W = max(0, 500 - 50*aiLevel) ms with thinking-time enabled and 0
\* without; W = 0 for every aiLevel >= 10.
C3_CommitPostcondition ==
    (op = "suggestMove" /\ args # Null) =>
        /\ pathStartTime = clock
        /\ waitEndTime = clock + currentPath.duration
                         + WaitMs(args.aiLevel, enableThinkingTime)
        /\ args.aiLevel >= 10 => waitEndTime = clock + currentPath.duration

\* a call has planned at level 9 with thinking-time enabled, later than time 0
C3_Witness ==
    /\ op = "suggestMove"
    /\ args # Null
    /\ args.aiLevel = 9
    /\ enableThinkingTime
    /\ clock > 0
    /\ pathStartTime = clock
    /\ waitEndTime = clock + 700 + 50

\* C4: in every reachable state, if currentPath is set and thinking-time is
\* enabled then waitEndTime >= pathStartTime + currentPath.duration.
C4_WaitEndAfterPathEnd ==
    (currentPath # Null /\ enableThinkingTime)
        => waitEndTime >= pathStartTime + currentPath.duration

\* a path planned at a level above 10 is committed, thinking-time enabled
C4_Witness ==
    /\ op = "suggestMove"
    /\ args # Null
    /\ args.aiLevel > 10
    /\ enableThinkingTime
    /\ currentPath # Null
    /\ waitEndTime = pathStartTime + currentPath.duration

\* C5: a suggestMove call returns the zero vector without planning only if a
\* path is committed and either the clock has reached pathStartTime +
\* currentPath.duration (the pause) or that path is 'stay' itself (following
\* it): no pause in Idle, none before the committed path has run its duration.
C5_PauseOnlyBetweenPlans ==
    [][ (SuggestMoveStep /\ args' = Null /\ ret' = ZeroVector)
            => /\ currentPath # Null
               /\ \/ clock' >= pathStartTime + currentPath.duration
                  \/ [dx |-> currentPath.dx, dz |-> currentPath.dz] = ZeroVector ]_vars

\* a call has paused at the very instant the committed moving path ended
C5_Witness ==
    /\ op = "suggestMove"
    /\ args = Null
    /\ ret = ZeroVector
    /\ currentPath # Null
    /\ currentPath.dx # 0
    /\ clock = pathStartTime + currentPath.duration
    /\ clock < waitEndTime

\* C6: the first suggestMove call after reset() plans: it commits the path
\* planNewPath computes from the call's own arguments, at the call's clock
\* value, and returns that path's direction.
C6_FreshPlanAfterReset ==
    [][ (SuggestMoveStep /\ sinceReset = "reset")
            => /\ args' # Null
               /\ currentPath' = planNewPath(args'.meteors, args'.position,
                                             args'.currentScore, args'.aiLevel,
                                             args'.enemies, args'.holes)
               /\ pathStartTime' = clock'
               /\ ret' = [dx |-> currentPath'.dx, dz |-> currentPath'.dz] ]_vars

\* the first call after a reset() has planned, later than time 0, and returned
\* a moving direction
C6_Witness ==
    /\ op = "suggestMove"
    /\ sinceReset = "first"
    /\ args # Null
    /\ clock > 0
    /\ pathStartTime = clock
    /\ ret = [dx |-> currentPath.dx, dz |-> currentPath.dz]
    /\ ret # ZeroVector

\* C7: a suggestMove call made while thinking-time is disabled and a re-plan is
\* due commits a new plan.
C7_NoPauseWhenThinkingDisabled ==
    [][ (SuggestMoveStep /\ ~enableThinkingTime /\ ReplanDue(clock'))
            => args' # Null ]_vars

\* the 9 vectors of the direction catalog
CatalogVectors ==
    { ZeroVector } \cup
    { [dx |-> x, dz |-> 0] : x \in {-Scale, Scale} } \cup
    { [dx |-> 0, dz |-> z] : z \in {-Scale, Scale} } \cup
    { [dx |-> x, dz |-> z] : x, z \in {-sqrt22, sqrt22} }

\* C8: every value suggestMove returns is one of the 9 catalog vectors, dx and
\* dz in [-1, 1]; so are the dx, dz of currentPath.
C8_ReturnsCatalogVector ==
    /\ op = "suggestMove" =>
          /\ ret \in CatalogVectors
          /\ Abs(ret.dx) <= Scale
          /\ Abs(ret.dz) <= Scale
    /\ currentPath # Null =>
          [dx |-> currentPath.dx, dz |-> currentPath.dz] \in CatalogVectors

\* a call has returned a diagonal
C8_Witness ==
    /\ op = "suggestMove"
    /\ ret = [dx |-> -sqrt22, dz |-> -sqrt22]
    /\ currentPath # Null
    /\ Cardinality(CatalogVectors) = 9

\* the arguments of claims C9 and C10: nothing in the arena, the agent at its centre
EmptyAtCentre(a) ==
    /\ a # Null
    /\ Len(a.meteors) = 0
    /\ Len(a.enemies) = 0
    /\ Len(a.holes) = 0
    /\ a.position.x = 0
    /\ a.position.z = 0

\* C9: a planning call with no meteors, enemies or holes and the agent at the
\* arena centre returns a non-zero direction, for every aiLevel in 1..10.
C9_MovesInEmptyArena ==
    (op = "suggestMove" /\ EmptyAtCentre(args) /\ args.aiLevel \in 1..10)
        => ret # ZeroVector

\* the score evaluatePath gives 'stay' for the arguments a of a planning call
StayScore(a) ==
    LET skill == calculateSkillFromLevel(a.aiLevel)
        pathDuration == calculatePathDuration(skill)
        lookaheadPercent == calculateLookaheadPercent(skill)
    IN  evaluatePath(getAllPossibleDirections[1], a.position, << >>, pathDuration,
                     lookaheadPercent, a.aiLevel, << >>, a.holes)

ScoreOf(a, k) ==
    LET p == Prepared(a)
    IN  evaluatePath(getAllPossibleDirections[k], a.position, p.predictedMeteors,
                     p.pathDuration, p.lookaheadPercent, a.aiLevel,
                     p.predictedEnemies, a.holes)

\* the scores of the 9 catalog directions
ScoresOf(a) == [k \in 1..9 |-> ScoreOf(a, k)]

\* the greatest of the scores
MaxScore(scores) == CHOOSE m \in Range(scores) : \A o \in Range(scores) : o <= m

\* the first place in catalog order that holds the greatest score
FirstBest(scores) ==
    CHOOSE k \in 1..9 : /\ scores[k] = MaxScore(scores)
                        /\ \A j \in 1..(k - 1) : scores[j] < scores[k]

\* the Path of catalog entry k with the given duration and score
PathOf(k, pathDuration, score) ==
    [dx |-> getAllPossibleDirections[k].dx, dz |-> getAllPossibleDirections[k].dz,
     duration |-> pathDuration, score |-> score,
     name |-> getAllPossibleDirections[k].name]

\* C11: selectBestPath returns the first direction in catalog order whose score
\* is the greatest of the 9 scores, as a Path with duration = pathDuration and
\* that score; 'stay' wins every tie it takes part in.  Stated for the loop run
\* on every vector of scores and for selectBestPath on the game states.
C11_FirstBestWins ==
    /\ op = "selectBestPath loop" =>
          /\ ret = PathOf(FirstBest(args.scores), args.pathDuration,
                          MaxScore(args.scores))
          /\ args.scores[1] = MaxScore(args.scores) => ret.name = "stay"
    /\ op = "selectBestPath" =>
          LET scores == ScoresOf(args.call)
          IN  /\ ret = PathOf(FirstBest(scores), Prepared(args.call).pathDuration,
                              MaxScore(scores))
              /\ scores[1] = MaxScore(scores) => ret.name = "stay"

\* the loop has returned 'stay' from a tie of 'stay' with 'backward', other
\* directions scoring less
C11_Witness ==
    /\ op = "selectBestPath loop"
    /\ args.scores[1] = 0
    /\ args.scores[5] = 0
    /\ args.scores[2] < 0
    /\ ret.name = "stay"
    /\ ret.score = 0

WellFormed(h) == h # Null /\ Has(h, "position")

\* C12: a planning call whose meteors or enemies list holds an entry with no
\* position does not throw: it commits, at the call's clock value, the path
\* planned from the well-formed entries alone and returns its direction.
C12_MalformedHazardsDropped ==
    (op = "suggestMove" /\ args # Null
        /\ \/ \E i \in 1..Len(args.meteors) : ~WellFormed(args.meteors[i])
           \/ \E i \in 1..Len(args.enemies) : ~WellFormed(args.enemies[i]))
        => /\ ret # TypeError
           /\ ret \in CatalogVectors
           /\ pathStartTime = clock
           /\ currentPath = planNewPath(SelectSeq(args.meteors, WellFormed),
                                        args.position, args.currentScore, args.aiLevel,
                                        SelectSeq(args.enemies, WellFormed), args.holes)
           /\ ret = [dx |-> currentPath.dx, dz |-> currentPath.dz]

\* the closed square of a hole
InSquare(x, z, hole) ==
    /\ hole.x - hole.halfSize <= x /\ x <= hole.x + hole.halfSize
    /\ hole.z - hole.halfSize <= z /\ z <= hole.z + hole.halfSize

\* the start position of the arguments a lies in the closed square of some hole
StartInHole(a) ==
    \E h \in 1..Len(a.holes) : InSquare(a.position.x, a.position.z, a.holes[h])

\* one of the 11 positions sampled along direction k at t = i/10 * pathDuration
\* lies in the closed square of some hole
SampleInHole(a, k) ==
    \E i \in 0..10, h \in 1..Len(a.holes) :
        LET t == TDiv(i * Prepared(a).pathDuration, 10)
            at == calculatePositionAlongPath(a.position, getAllPossibleDirections[k], 12, t)
        IN  InSquare(at.x, at.z, a.holes[h])

\* what scoreHolePenalty has returned, the hole term of evaluatePath, is
\* -20*aiLevel, once, if hole-avoidance is enabled and a sample lies in a hole,
\* else 0
HoleTermValue ==
    op = "scoreHolePenalty" =>
        ret.value = IF enableHoleAvoidance /\ SampleInHole(args.call, args.direction)
                    THEN -20 * Scale * args.call.aiLevel
                    ELSE 0

\* the caller has scored 'stay' from a start position inside a hole, then
\* changed the hole-avoidance flag: the score with the flag off is the score
\* with the flag on plus 20*aiLevel
StayAcrossToggle ==
    (/\ op = "setHoleAvoidanceEnabled"
     /\ args # Null
     /\ args.method = "evaluatePath"
     /\ args.direction = 1
     /\ StartInHole(args.call)
     /\ args.holeAvoidance # enableHoleAvoidance)
        => LET on == IF enableHoleAvoidance THEN ScoreOf(args.call, 1) ELSE ret.value
               off == IF enableHoleAvoidance THEN ret.value ELSE ScoreOf(args.call, 1)
           IN  off - on = 20 * Scale * args.call.aiLevel

ChoiceAcrossToggle ==
    (/\ op = "setHoleAvoidanceEnabled"
     /\ args # Null
     /\ args.method = "selectBestPath"
     /\ StartInHole(args.call)
     /\ args.holeAvoidance # enableHoleAvoidance)
        => LET a == args.call
               p == Prepared(a)
               chosen == selectBestPath(getAllPossibleDirections, a.position,
                                        p.predictedMeteors, p.pathDuration,
                                        p.lookaheadPercent, a.aiLevel,
                                        p.predictedEnemies, a.holes)
           IN  /\ chosen.name = ret.name
               /\ chosen.dx = ret.dx
               /\ chosen.dz = ret.dz

\* with hole-avoidance enabled and the start inside a hole, what
\* scoreHolePenalty has returned is -20*aiLevel, whatever the direction
SamePenaltyEverywhere ==
    (op = "scoreHolePenalty" /\ enableHoleAvoidance /\ StartInHole(args.call))
        => ret.value = -20 * Scale * args.call.aiLevel

EnemyLists ==
    { << >>,
      << [position |-> Pos(3000, 600, 1000)] >>,
      << [position |-> Pos(-6000, 0, 0)], [position |-> Pos(2500, 600, -1000)] >>,
      << [position |-> Pos(0, 600, 500)], [id |-> 7] >> }

\* the arguments a with another enemies list
WithEnemies(a, enemies) == [a EXCEPT !.enemies = enemies]

\* the call with an explicit empty enemies list
WithEmptyEnemies(call) ==
    [f \in DOMAIN call \cup {"enemies"} |-> IF f = "enemies" THEN << >> ELSE call[f]]

\* the path planNewPath returns for the arguments a
PlanOf(a) ==
    planNewPath(a.meteors, a.position, a.currentScore, a.aiLevel, a.enemies, a.holes)

\* the predictions of the well-formed entries of an enemies list, whatever the flag
PredictedAnyway(enemies, a) ==
    SelectSeq([i \in 1..Len(enemies) |->
                  predictEnemy(enemies[i], a.position, Prepared(a).pathDuration)],
              LAMBDA e : e # Null)

\* the enemy term of direction k for the arguments a and a list of predictions
EnemyTerm(a, k, predictedEnemies) ==
    scoreEnemyCollisions(getAllPossibleDirections[k], a.position, predictedEnemies,
                         Prepared(a).pathDuration, 12)

\* with enemy-avoidance disabled predictEnemyPositions returns the empty list
NoPredictionWhenDisabled ==
    (op = "predictEnemyPositions" /\ ~enableEnemyAvoidance) => ret.value = << >>

\* with enemy-avoidance disabled the enemy term is 0 for every direction, for
\* the predictions planNewPath passes on and for any predictions handed in
NoEnemyTermWhenDisabled ==
    (op = "planNewPath" /\ ~enableEnemyAvoidance)
        => \A enemies \in EnemyLists \cup {args.call.enemies}, k \in 1..9 :
              LET a == WithEnemies(args.call, enemies)
              IN  /\ EnemyTerm(a, k, Prepared(a).predictedEnemies) = 0
                  /\ EnemyTerm(a, k, PredictedAnyway(enemies, a)) = 0

\* with enemy-avoidance disabled the path planned is the same for every
\* enemies argument
SamePathWhenDisabled ==
    (op = "planNewPath" /\ ~enableEnemyAvoidance)
        => \A enemies \in EnemyLists : PlanOf(WithEnemies(args.call, enemies)) = ret

\* an omitted enemies argument plans the same path as an empty list
OmittedIsEmpty ==
    (op = "planNewPath" /\ ~Has(args.given, "enemies"))
        => ret = PlanOf(WithDefaults(WithEmptyEnemies(args.given)))

\* C15: while enemy-avoidance is disabled, predictEnemyPositions returns the
\* empty list, the enemy score term is 0 for every direction, and two planning
\* calls that differ only in their enemies argument get the same path (dx, dz,
\* duration, score); an omitted and an empty enemies list get the same path,
\* with avoidance enabled as well.
C15_EnemyNonInterference ==
    /\ NoPredictionWhenDisabled
    /\ NoEnemyTermWhenDisabled
    /\ SamePathWhenDisabled
    /\ OmittedIsEmpty

\* a plan for an agent with an enemy two units away, enemy-avoidance disabled:
\* the path is the one planned without enemies
C15_Witness ==
    /\ op = "planNewPath"
    /\ ~enableEnemyAvoidance
    /\ Len(args.call.enemies) = 2
    /\ PredictedAnyway(args.call.enemies, args.call) # << >>
    /\ ret = PlanOf(WithEnemies(args.call, << >>))

(***************************************************************************)
(* C16  Frame of the calls that do not plan                                *)
(***************************************************************************)

\* the three feature flags
FeatureFlags == << enableHoleAvoidance, enableThinkingTime, enableEnemyAvoidance >>

\* a call of suggestMove that finds the instance Following or Waiting
NonPlanningCall ==
    /\ SuggestMoveStep
    /\ \/ InWindow(clock')
       \/ ReplanDue(clock') /\ clock' < waitEndTime

\* a non-planning call leaves the timer's fields and the flags alone
NonPlanningFrame ==
    NonPlanningCall => (UNCHANGED Timer /\ UNCHANGED FeatureFlags)

\* currentPath changes only to null, by reset, or to the whole record that
\* planNewPath returned for the arguments of a planning call
ReplacedWhole ==
    currentPath' # currentPath
        => \/ op' = "reset" /\ currentPath' = Null
           \/ /\ SuggestMoveStep
              /\ ~NonPlanningCall
              /\ args' # Null
              /\ \E call \in Calls : /\ args' = WithDefaults(call)
                                     /\ currentPath' = PlanOf(WithDefaults(call))

\* C16: a suggestMove call that does not plan (Following, or Waiting) leaves
\* currentPath, pathStartTime, pathEndTime, waitEndTime and the three feature
\* flags unchanged; currentPath only changes by being replaced as a whole at a
\* commit or by being cleared by reset.
C16_NonPlanningFrame == [][ NonPlanningFrame /\ ReplacedWhole ]_vars

\* a call has followed a moving path after two of the flags were switched off
C16_Witness ==
    /\ op = "suggestMove"
    /\ args = Null
    /\ InWindow(clock)
    /\ pathStartTime < clock
    /\ currentPath.dx # 0
    /\ ~enableHoleAvoidance
    /\ ~enableEnemyAvoidance

(***************************************************************************)
(* C17  The toggle setters                                                 *)
(***************************************************************************)

\* the values of SetterArgs that JavaScript converts to true
Truthy(v) == v \in { [type |-> "boolean", value |-> TRUE], [type |-> "number", value |-> 1] }

\* a call of any of the three setters leaves the timer and minEnemyDistance alone
SetterFrame ==
    op' \in {"setHoleAvoidanceEnabled", "setThinkingTimeEnabled", "setEnemyAvoidanceEnabled"}
        => UNCHANGED << Timer, minEnemyDistance >>

\* a setter leaves the other two flags alone
OtherFlagsKept ==
    /\ op' = "setHoleAvoidanceEnabled"
          => UNCHANGED << enableThinkingTime, enableEnemyAvoidance >>
    /\ op' = "setThinkingTimeEnabled"
          => UNCHANGED << enableHoleAvoidance, enableEnemyAvoidance >>
    /\ op' = "setEnemyAvoidanceEnabled"
          => UNCHANGED << enableHoleAvoidance, enableThinkingTime >>

\* a setter called with the argument enabled sets its flag to !!enabled
OwnFlagSet ==
    \A enabled \in SetterArgs :
        /\ setHoleAvoidanceEnabled(enabled) => enableHoleAvoidance' = Truthy(enabled)
        /\ setThinkingTimeEnabled(enabled) => enableThinkingTime' = Truthy(enabled)
        /\ setEnemyAvoidanceEnabled(enabled) => enableEnemyAvoidance' = Truthy(enabled)

\* C17: each of setHoleAvoidanceEnabled, setThinkingTimeEnabled and
\* setEnemyAvoidanceEnabled changes only its own flag, to the boolean value of
\* its argument; currentPath, pathStartTime, pathEndTime, waitEndTime,
\* minEnemyDistance and the other two flags are left unchanged.
C17_SettersOnlyFlipOwnFlag == [][ SetterFrame /\ OtherFlagsKept /\ OwnFlagSet ]_vars

\* thinking-time has been switched off during the wait period of a committed
\* path, and the path's wait period is still the one stored at the commit
C17_Witness ==
    /\ op = "setThinkingTimeEnabled"
    /\ ~enableThinkingTime
    /\ currentPath # Null
    /\ clock >= pathEndTime
    /\ clock < waitEndTime

(***************************************************************************)
(* C18  Waiting always ends                                                *)
(***************************************************************************)

\* the last call of suggestMove planned and committed
Planned == op = "suggestMove" /\ args # Null

\* the longest time from a commit to the end of its wait period (level 1),
\* in 1/1000 s
LongestCycle == calculatePathDuration(calculateSkillFromLevel(1)) + WaitMs(1, TRUE)

\* the clock values that leave the game loop the time for one more cycle
LiveHorizon == LiveMaxTime - LongestCycle - 2 * LiveStep

\* the frames up to the horizon
LiveFrames == { k * LiveStep : k \in 0..(LiveHorizon \div LiveStep) }

\* the level a path was planned with, from its duration (levels 1..10)
LevelOf(path) == (1600 - path.duration) \div 100

\* the wait period of the committed path is no longer than max(0, 500 - 50 *
\* aiLevel) ms for the level the path was planned with, so at most 450 ms
PauseBounded ==
    currentPath # Null
        => /\ pathEndTime = pathStartTime + currentPath.duration
           /\ waitEndTime >= pathEndTime
           /\ waitEndTime - pathEndTime <= Max(0, 500 - 50 * LevelOf(currentPath))
           /\ waitEndTime - pathEndTime <= 450

\* a call pauses only between the end of the path and the end of its wait period
PauseOnlyInWaitPeriod ==
    (op = "suggestMove" /\ args = Null /\ ReplanDue(clock))
        => (ret = ZeroVector /\ pathEndTime <= clock /\ clock < waitEndTime)

\* from every state a plan is eventually committed at a later clock value
NewPlanEventually ==
    \A t \in LiveFrames : (clock = t) ~> (Planned /\ pathStartTime > t)

\* C18: if suggestMove keeps being called with an advancing clock and aiLevel
\* in 1..10, a new plan is eventually committed from every reachable state, and
\* pause zero vectors are returned only during an interval of at most
\* max(0, 500 - 50*aiLevel) <= 450 ms after the path's end, aiLevel being the
\* level the path was planned with.
C18_WaitingEnds == []PauseBounded /\ []PauseOnlyInWaitPeriod /\ NewPlanEventually

\* a call has paused 250 ms or more into the 450 ms wait period of a path
\* planned at level 1
C18_Witness ==
    /\ op = "suggestMove"
    /\ args = Null
    /\ ret = ZeroVector
    /\ currentPath # Null
    /\ LevelOf(currentPath) = 1
    /\ waitEndTime - pathEndTime = 450
    /\ clock >= pathEndTime + 250
    /\ clock < waitEndTime

(***************************************************************************)
(* C19  One shared instance behind the module-level functions              *)
(***************************************************************************)

\* the record that holds for the instance called, as switchInstance stores it
ThisAsRecord ==
    [id |-> this,
     currentPath |-> currentPath, pathStartTime |-> pathStartTime,
     pathEndTime |-> pathEndTime, waitEndTime |-> waitEndTime,
     enableHoleAvoidance |-> enableHoleAvoidance,
     enableThinkingTime |-> enableThinkingTime,
     enableEnemyAvoidance |-> enableEnemyAvoidance,
     minEnemyDistance |-> minEnemyDistance,
     op |-> op, args |-> args, ret |-> ret, sinceReset |-> sinceReset]

\* a step that is a method call, on the instance called before
SameInstance == that'.id = that.id

\* the other of the two agents
OtherAgent(agent) == IF agent = FirstAgent THEN SecondAgent ELSE FirstAgent

\* the direction planNewPath chooses for an agent's own arguments
OwnDirection(agent) == getCurrentPathDirection(PlanOf(WithDefaults(agent)))

\* the path committed on defaultAI was planned for this agent
PlannedFor(agent) == currentPath = PlanOf(WithDefaults(agent))

\* a call through the module-level suggestMove for one agent, inside the window
\* of a path planned for the other agent, returns the direction planned for
\* the other agent and commits nothing
OtherAgentsDirection ==
    \A agent \in AgentCalls :
        (/\ this = "defaultAI"
         /\ InWindow(clock)
         /\ call_suggestMove(agent)
         /\ PlannedFor(OtherAgent(agent)))
            => /\ ret' = getCurrentPathDirection(currentPath)
               /\ UNCHANGED Timer

\* after resetAI the next call through the module-level suggestMove plans,
\* whichever agent it is for
ResetForcesReplan ==
    (/\ this = "defaultAI"
     /\ sinceReset = "reset"
     /\ SameInstance
     /\ SuggestMoveStep)
        => /\ args' \in { WithDefaults(agent) : agent \in AgentCalls }
           /\ pathStartTime' = clock'
           /\ currentPath' # Null
           /\ ret' = getCurrentPathDirection(currentPath')

\* a method call leaves the instance it is not called on as it is, and the
\* change of the instance called changes neither instance
InstancesApart ==
    /\ SameInstance => that' = that
    /\ ~SameInstance => (that' = ThisAsRecord /\ ThisAsRecord' = that)

\* C19: the module-level suggestMove and resetAI act on one shared instance: a
\* call for the second agent inside the commitment window of a path planned for
\* the first agent returns the first agent's direction, whatever the second
\* agent's position and hazards, and after a resetAI the next call re-plans,
\* whoever makes it; two separately constructed instances never affect each
\* other's state.
C19_SharedSingleton == [][ OtherAgentsDirection /\ ResetForcesReplan /\ InstancesApart ]_vars

\* a call through the module-level suggestMove, after the clock has moved on,
\* has returned the direction planned for the first agent, which is not the one
\* the second agent's arguments give; meanwhile the caller's own instance has
\* a path of its own and thinking-time switched off
C19_Witness ==
    /\ this = "defaultAI"
    /\ op = "suggestMove"
    /\ args = Null
    /\ InWindow(clock)
    /\ clock > pathStartTime
    /\ PlannedFor(FirstAgent)
    /\ ret = OwnDirection(FirstAgent)
    /\ ret # OwnDirection(SecondAgent)
    /\ that.currentPath # Null
    /\ that.currentPath # currentPath
    /\ ~that.enableThinkingTime

====
